---- MODULE Spec2Model ----
(***************************************************************************)
(* Model of the StudyBuddy backend (backend/main.py, backend/rag.py,       *)
(* backend/config.py): the in-memory conversation and feedback logs and    *)
(* the request handlers POST /chat, POST /feedback, GET /history and       *)
(* DELETE /history.                                                        *)
(*                                                                         *)
(* Handlers run on one event loop: a handler runs without interruption     *)
(* until it awaits.  chat awaits once, on the generation call, so it is    *)
(* two steps (chat, chat_resume); every other handler is one step.         *)
(* Texts are sequences of strings: a message is the sequence of its        *)
(* characters, a prompt text or canned response the one-element sequence   *)
(* of its name.  rid, appended, rag_calls, gen_calls and searched are      *)
(* history variables: the ordinal of the chat request, and what it has     *)
(* appended and called so far.                                             *)
(***************************************************************************)
EXTENDS Integers, Sequences, FiniteSets, TLC

(* ------------------------------ bounds -------------------------------- *)
\* number of chat requests that can be suspended on the generation call at once
NumSlots == 2
\* number of chat requests that get past validation in one behaviour
MaxChats == 2
\* largest MAX_HISTORY_LENGTH the environment configures (1..MaxHistoryConfig)
MaxHistoryConfig == 2

(* --------------------------- program constants ------------------------ *)
\* ChatMessage.message: Field(..., min_length=1, ...)
MIN_MESSAGE_LENGTH == 1
\* Feedback.rating: Field(..., ge=1, le=5)
RATING_MIN == 1
RATING_MAX == 5
\* submit_feedback: if len(feedback_store) > 100
FEEDBACK_CAP == 100
\* format_conversation_history(messages, max_messages: int = 4)
DEFAULT_MAX_MESSAGES == 4
\* Settings.MAX_CONTEXT_MESSAGES: int = 10 (no handler reads it)
MAX_CONTEXT_MESSAGES == 10

Modes == {"general", "study", "research"}
Whitespace == {" "}
MODEL_NAME == "gemini-2.5-flash-lite"
NO_CONTEXT == "No relevant context found in knowledge base."
CONTEXT_MARKER == "[Relevant context from uploaded documents]:"
None == "None"

(* ------------------------------ inputs -------------------------------- *)
\* the default mode and one with an addendum to the system prompt
ModeInputs == {"general", "study"}
\* POST /chat bodies: a message with text and leading whitespace in every
\* mode with and without retrieval, the empty message and a blank one
ChatInputs ==
    { [message |-> <<" ", "a">>, mode |-> m, use_rag |-> u] :
          m \in ModeInputs, u \in BOOLEAN }
    \cup { [message |-> <<>>, mode |-> "general", use_rag |-> FALSE],
           [message |-> <<" ">>, mode |-> "study", use_rag |-> TRUE] }
RatingInputs == {0, 5}
\* GET /history queries as <<limit, offset, mode>>; <<20, 0, None>> is the default
HistoryQueries == { <<20, 0, None>>, <<1, 0, None>>, <<1, 1, "study">> }
\* what the vector store does on a search: raise, no result, one snippet
Snippet == [filename |-> "notes.txt", content |-> "chunk", relevance_score |-> "0.80"]
SearchOutcomes == { [kind |-> "raise"],
                    [kind |-> "results", results |-> <<>>],
                    [kind |-> "results", results |-> <<Snippet>>] }
\* no search is made
NoSearch == [kind |-> "none"]
\* what the generation endpoint does on a call
GenOutcomes == {"ok", "timeout", "non200", "malformed", "network"}
GenFailures == GenOutcomes \ {"ok"}

(* ------------------------------- state -------------------------------- *)
VARIABLES
    settings,               \* config.settings, loaded once from the environment
    conversation_history,   \* main.conversation_history
    feedback_store,         \* main.feedback_store
    slot,                   \* the chat coroutines suspended on the generation call
    nchats,                 \* chat requests that passed validation so far
    resp                    \* the outcome of the latest handler step

vars == <<settings, conversation_history, feedback_store, slot, nchats, resp>>

Slots == 1..NumSlots
IdleSlot == [pc |-> "idle"]

(* --------------------------- pure functions --------------------------- *)
RECURSIVE lstrip(_)
lstrip(s) == IF s # <<>> /\ Head(s) \in Whitespace THEN lstrip(Tail(s)) ELSE s

RECURSIVE rstrip(_)
rstrip(s) == IF s # <<>> /\ s[Len(s)] \in Whitespace
             THEN rstrip(SubSeq(s, 1, Len(s) - 1)) ELSE s

\* str.strip()
strip(s) == rstrip(lstrip(s))

\* the list slice lst[-n:] for n >= 0 (lst[-0:] is lst[0:], the whole list)
LastN(lst, n) ==
    IF n = 0 \/ n >= Len(lst) THEN lst
    ELSE SubSeq(lst, Len(lst) - n + 1, Len(lst))

\* the list slice lst[a:b] for 0 <= a, 0 <= b
Slice(lst, a, b) ==
    LET hi == IF b > Len(lst) THEN Len(lst) ELSE b
    IN  IF a >= hi THEN <<>> ELSE SubSeq(lst, a + 1, hi)

RECURSIVE Filter(_, _)
Filter(lst, m) ==
    IF lst = <<>> THEN <<>>
    ELSE IF Head(lst).mode = m THEN <<Head(lst)>> \o Filter(Tail(lst), m)
         ELSE Filter(Tail(lst), m)

build_system_prompt(mode) ==
    CASE mode = "study"    -> <<"SYSTEM_PROMPT", "STUDY_TUTOR_PROMPT">>
      [] mode = "research" -> <<"SYSTEM_PROMPT", "RESEARCH_ASSISTANT_PROMPT">>
      [] OTHER             -> <<"SYSTEM_PROMPT">>

format_conversation_history(messages, max_messages) ==
    LET window == LastN(messages, max_messages)
    IN  [i \in 1..Len(window) |->
            [label   |-> IF window[i].role = "user" THEN "Student" ELSE "Tutor",
             message |-> window[i].message]]

get_fallback_response(mode) ==
    CASE mode = "study"    -> <<"FALLBACK_study">>
      [] mode = "research" -> <<"FALLBACK_research">>
      [] OTHER             -> <<"FALLBACK_general">>

\* SimpleRAG.search: any exception of the vector store is caught and becomes []
search(outcome) ==
    IF outcome.kind = "results" THEN outcome.results ELSE <<>>

\* the f-string of query_with_context, lines 148-152, as its parts
render_result(result) ==
    <<"[Source: ", result.filename, ", Relevance: ", result.relevance_score,
      "]\n", result.content, "\n">>

\* "\n---\n".join(context_parts)
RECURSIVE join_parts(_)
join_parts(results) ==
    IF Len(results) = 1 THEN render_result(results[1])
    ELSE render_result(Head(results)) \o <<"\n---\n">> \o join_parts(Tail(results))

\* SimpleRAG.query_with_context: the text handed back to chat, as a list of parts
query_with_context(outcome) ==
    LET results == search(outcome)
    IN  IF results = <<>> THEN <<NO_CONTEXT>> ELSE join_parts(results)

\* retrieve with the use_rag test of line 288 dropped
retrieve_always(use_rag, outcome) ==
    LET ctx == query_with_context(outcome)
    IN  [rag_context |-> IF ctx # <<>> /\ ctx # <<NO_CONTEXT>>
                         THEN <<CONTEXT_MARKER>> \o ctx
                         ELSE ctx,
         calls |-> 1, searched |-> outcome]

\* chat, lines 286-294: the rag_context that goes into the prompt, and the
\* number of calls made to the retrieval collaborator (rag_system is the
\* module's singleton object, always truthy)
retrieve(use_rag, outcome) ==
    IF use_rag
    THEN LET ctx == query_with_context(outcome)
         IN  [rag_context |-> IF ctx # <<>> /\ ctx # <<NO_CONTEXT>>
                              THEN <<CONTEXT_MARKER>> \o ctx
                              ELSE ctx,
              calls |-> 1, searched |-> outcome]
    ELSE [rag_context |-> <<>>, calls |-> 0, searched |-> NoSearch]

\* chat, lines 297-305: the f-string, as its parts in order
final_prompt_of(system_prompt, rag_context, history_context, message) ==
    [system  |-> system_prompt,
     rag     |-> rag_context,
     history |-> history_context,
     student |-> message,
     cue     |-> "Tutor:"]

\* call_gemini_api: what the awaited call hands back to chat
call_gemini_api(outcome) ==
    CASE outcome = "ok"      -> [kind |-> "return", text |-> <<"generated">>]
      [] outcome = "timeout" -> [kind |-> "raise", exc |-> "HTTPException",
                                 status |-> 504, detail |-> "Request timeout"]
      [] OTHER               -> [kind |-> "raise", exc |-> "HTTPException",
                                 status |-> 500, detail |-> "API call failed"]

(* ------------------------------- Init --------------------------------- *)
Init ==
    /\ settings \in [GEMINI_API_KEY : {"", "key"},
                     MAX_HISTORY_LENGTH : 1..MaxHistoryConfig]
    /\ conversation_history = <<>>
    /\ feedback_store = <<>>
    /\ slot = [r \in Slots |-> IdleSlot]
    /\ nchats = 0
    /\ resp = [op |-> "none"]

(* ------------------------------ POST /chat ---------------------------- *)
\* the request model ChatMessage: min_length of message, pattern of mode
\* (inputs are at most 2000 characters long)
ChatMessageValid(chat_data) ==
    /\ Len(chat_data.message) >= MIN_MESSAGE_LENGTH
    /\ chat_data.mode \in Modes

\* chat_reject testing the message without strip()
chat_reject_nostrip(chat_data) ==
    IF chat_data.message = <<>>
    THEN [status |-> 400, detail |-> "Message cannot be empty"]
    ELSE IF settings.GEMINI_API_KEY = ""
         THEN [status |-> 500, detail |-> "Gemini API key not configured"]
         ELSE [status |-> 0, detail |-> ""]

\* chat, lines 259-268: the status chat rejects the request with, 0 for none
chat_reject(chat_data) ==
    IF strip(chat_data.message) = <<>>
    THEN [status |-> 400, detail |-> "Message cannot be empty"]
    ELSE IF settings.GEMINI_API_KEY = ""
         THEN [status |-> 500, detail |-> "Gemini API key not configured"]
         ELSE [status |-> 0, detail |-> ""]

\* trim_history keeping the oldest entries (history[:max_len])
trim_history_oldest(history, max_len) ==
    IF Len(history) > max_len THEN SubSeq(history, 1, max_len) ELSE history

\* chat, lines 329-331
trim_history(history, max_len) ==
    IF Len(history) > max_len THEN LastN(history, max_len) ELSE history

HasFreeSlot == \E r \in Slots : slot[r].pc = "idle"
\* a new coroutine takes the first free place
FreeSlot == CHOOSE r \in Slots :
                /\ slot[r].pc = "idle"
                /\ \A q \in Slots : q < r => slot[q].pc # "idle"

ChatRejected(chat_data, status, detail) ==
    [op |-> "chat", phase |-> "done", status |-> status, detail |-> detail,
     message |-> chat_data.message, validated |-> FALSE,
     appended |-> 0, rag_calls |-> 0, gen_calls |-> 0]

\* chat as if the user Turn were put at the head of the log
chat_prepend_user(message, mode, use_rag, so) ==
    LET chat_data == [message |-> message, mode |-> mode, use_rag |-> use_rag]
    IN
    IF ~ChatMessageValid(chat_data)
    THEN /\ resp' = ChatRejected(chat_data, 422, "Unprocessable Entity")
         /\ UNCHANGED <<settings, conversation_history, feedback_store, slot, nchats>>
    ELSE IF chat_reject(chat_data).status # 0
    THEN /\ resp' = ChatRejected(chat_data, chat_reject(chat_data).status,
                                 chat_reject(chat_data).detail)
         /\ UNCHANGED <<settings, conversation_history, feedback_store, slot, nchats>>
    ELSE /\ HasFreeSlot
         /\ nchats < MaxChats
         /\ LET r == FreeSlot
                rid == nchats + 1
                user_message == [id |-> Len(conversation_history) + 1,
                                 role |-> "user",
                                 message |-> message,
                                 mode |-> mode,
                                 use_rag |-> use_rag,
                                 rid |-> rid]
                history1 == <<user_message>> \o conversation_history
                system_prompt == build_system_prompt(mode)
                history_context ==
                    format_conversation_history(history1, DEFAULT_MAX_MESSAGES)
                rag == retrieve(use_rag, so)
                final_prompt == final_prompt_of(system_prompt, rag.rag_context,
                                                history_context, message)
            IN  /\ conversation_history' = history1
                /\ slot' = [slot EXCEPT ![r] =
                              [pc |-> "awaiting", chat_data |-> chat_data,
                               final_prompt |-> final_prompt, rid |-> rid,
                               appended |-> 1, rag_calls |-> rag.calls,
                               searched |-> rag.searched, gen_calls |-> 1]]
                /\ nchats' = rid
                /\ resp' = [op |-> "chat", phase |-> "suspended"]
         /\ UNCHANGED <<settings, feedback_store>>

\* chat up to the await of call_gemini_api (lines 254-308)
chat(message, mode, use_rag, so) ==
    LET chat_data == [message |-> message, mode |-> mode, use_rag |-> use_rag]
    IN
    IF ~ChatMessageValid(chat_data)
    THEN /\ resp' = ChatRejected(chat_data, 422, "Unprocessable Entity")
         /\ UNCHANGED <<settings, conversation_history, feedback_store, slot, nchats>>
    ELSE IF chat_reject(chat_data).status # 0
    THEN /\ resp' = ChatRejected(chat_data, chat_reject(chat_data).status,
                                 chat_reject(chat_data).detail)
         /\ UNCHANGED <<settings, conversation_history, feedback_store, slot, nchats>>
    ELSE /\ HasFreeSlot
         /\ nchats < MaxChats
         /\ LET r == FreeSlot
                rid == nchats + 1
                user_message == [id |-> Len(conversation_history) + 1,
                                 role |-> "user",
                                 message |-> message,
                                 mode |-> mode,
                                 use_rag |-> use_rag,
                                 rid |-> rid]
                history1 == Append(conversation_history, user_message)
                system_prompt == build_system_prompt(mode)
                history_context ==
                    format_conversation_history(history1, DEFAULT_MAX_MESSAGES)
                rag == retrieve(use_rag, so)
                final_prompt == final_prompt_of(system_prompt, rag.rag_context,
                                                history_context, message)
            IN  /\ conversation_history' = history1
                /\ slot' = [slot EXCEPT ![r] =
                              [pc |-> "awaiting", chat_data |-> chat_data,
                               final_prompt |-> final_prompt, rid |-> rid,
                               appended |-> 1, rag_calls |-> rag.calls,
                               searched |-> rag.searched, gen_calls |-> 1]]
                /\ nchats' = rid
                /\ resp' = [op |-> "chat", phase |-> "suspended"]
         /\ UNCHANGED <<settings, feedback_store>>

\* chat as if a failed generation call were attempted a second time
chat_resume_retry(r, outcome) ==
    IF outcome \in GenFailures /\ slot[r].pc = "awaiting" /\ slot[r].gen_calls < 2
    THEN /\ slot' = [slot EXCEPT ![r].gen_calls = @ + 1]
         /\ resp' = [op |-> "chat", phase |-> "suspended"]
         /\ UNCHANGED <<settings, conversation_history, feedback_store, nchats>>
    ELSE
    /\ slot[r].pc = "awaiting"
    /\ LET s == slot[r]
           chat_data == s.chat_data
           res == call_gemini_api(outcome)
           common == [op |-> "chat", phase |-> "done", chat_data |-> chat_data,
                      message |-> chat_data.message,
                      validated |-> TRUE, rag_calls |-> s.rag_calls,
                      gen_calls |-> s.gen_calls, gen_failed |-> outcome \in GenFailures,
                      rid |-> s.rid]
       IN  IF res.kind = "raise" /\ res.exc = "HTTPException"
           THEN \* except HTTPException as he: raise he
                /\ resp' = common @@ [status |-> res.status, detail |-> res.detail,
                                      appended |-> s.appended]
                /\ UNCHANGED conversation_history
           ELSE LET ai_response == IF res.kind = "raise"
                                   THEN get_fallback_response(chat_data.mode)
                                   ELSE res.text
                    ai_message == [id |-> Len(conversation_history) + 1,
                                   role |-> "assistant",
                                   message |-> ai_response,
                                   mode |-> chat_data.mode,
                                   model |-> MODEL_NAME,
                                   rid |-> s.rid]
                    trimmed == trim_history(Append(conversation_history, ai_message),
                                            settings.MAX_HISTORY_LENGTH)
                IN  /\ conversation_history' = trimmed
                    /\ resp' = common @@
                               [status |-> 200, appended |-> s.appended + 1,
                                response |-> ai_response,
                                message_id |-> ai_message.id,
                                mode |-> chat_data.mode,
                                model |-> MODEL_NAME,
                                conversation_length |-> Len(trimmed),
                                rag_used |-> chat_data.use_rag]
    /\ slot' = [slot EXCEPT ![r] = IdleSlot]
    /\ UNCHANGED <<settings, feedback_store, nchats>>

\* chat from the return of the awaited call_gemini_api to the end (lines 308-341)
chat_resume(r, outcome) ==
    /\ slot[r].pc = "awaiting"
    /\ LET s == slot[r]
           chat_data == s.chat_data
           res == call_gemini_api(outcome)
           common == [op |-> "chat", phase |-> "done", chat_data |-> chat_data,
                      message |-> chat_data.message,
                      validated |-> TRUE, rag_calls |-> s.rag_calls,
                      gen_calls |-> s.gen_calls, gen_failed |-> outcome \in GenFailures,
                      rid |-> s.rid]
       IN  IF res.kind = "raise" /\ res.exc = "HTTPException"
           THEN \* except HTTPException as he: raise he
                /\ resp' = common @@ [status |-> res.status, detail |-> res.detail,
                                      appended |-> s.appended]
                /\ UNCHANGED conversation_history
           ELSE LET ai_response == IF res.kind = "raise"
                                   THEN get_fallback_response(chat_data.mode)
                                   ELSE res.text
                    ai_message == [id |-> Len(conversation_history) + 1,
                                   role |-> "assistant",
                                   message |-> ai_response,
                                   mode |-> chat_data.mode,
                                   model |-> MODEL_NAME,
                                   rid |-> s.rid]
                    trimmed == trim_history(Append(conversation_history, ai_message),
                                            settings.MAX_HISTORY_LENGTH)
                IN  /\ conversation_history' = trimmed
                    /\ resp' = common @@
                               [status |-> 200, appended |-> s.appended + 1,
                                response |-> ai_response,
                                message_id |-> ai_message.id,
                                mode |-> chat_data.mode,
                                model |-> MODEL_NAME,
                                conversation_length |-> Len(trimmed),
                                rag_used |-> chat_data.use_rag]
    /\ slot' = [slot EXCEPT ![r] = IdleSlot]
    /\ UNCHANGED <<settings, feedback_store, nchats>>

(* ---------------------------- POST /feedback -------------------------- *)
\* submit_feedback assigns feedback_store (line 444) without declaring it
\* global, so the name is local to the function
feedback_store_is_local == TRUE

submit_feedback(rating) ==
    IF ~(rating >= RATING_MIN /\ rating <= RATING_MAX)
    THEN /\ resp' = [op |-> "feedback", rating |-> rating, status |-> 422]
         /\ UNCHANGED <<settings, conversation_history, feedback_store, slot, nchats>>
    ELSE IF feedback_store_is_local
    THEN \* line 440 reads the unbound local: UnboundLocalError, answered by
         \* general_exception_handler
         /\ resp' = [op |-> "feedback", rating |-> rating, status |-> 500,
                     error |-> "Internal server error"]
         /\ UNCHANGED <<settings, conversation_history, feedback_store, slot, nchats>>
    ELSE LET feedback_entry == [rating |-> rating, comment |-> None,
                                message_id |-> None,
                                conversation_length |-> Len(conversation_history)]
             appended == Append(feedback_store, feedback_entry)
             kept == IF Len(appended) > FEEDBACK_CAP
                     THEN LastN(appended, FEEDBACK_CAP) ELSE appended
         IN  /\ feedback_store' = kept
             /\ resp' = [op |-> "feedback", rating |-> rating, status |-> 200,
                         success |-> TRUE, feedback_id |-> Len(kept)]
             /\ UNCHANGED <<settings, conversation_history, slot, nchats>>

(* ----------------------------- GET /history --------------------------- *)
\* get_history paging from the newest entry backwards
get_history_newest(limit, offset, mode) ==
    LET filtered_history == IF mode # None
                            THEN Filter(conversation_history, mode)
                            ELSE conversation_history
        upto == IF offset >= Len(filtered_history) THEN <<>>
                ELSE SubSeq(filtered_history, 1, Len(filtered_history) - offset)
        paginated_history == IF limit = 0 THEN <<>> ELSE LastN(upto, limit)
    IN  /\ resp' = [op |-> "history", status |-> 200,
                    messages |-> paginated_history,
                    total |-> Len(filtered_history),
                    limit |-> limit, offset |-> offset, mode |-> mode,
                    has_more |-> (offset + limit) < Len(filtered_history)]
        /\ UNCHANGED <<settings, conversation_history, feedback_store, slot, nchats>>

get_history(limit, offset, mode) ==
    LET filtered_history == IF mode # None
                            THEN Filter(conversation_history, mode)
                            ELSE conversation_history
        paginated_history == Slice(filtered_history, offset, offset + limit)
    IN  /\ resp' = [op |-> "history", status |-> 200,
                    messages |-> paginated_history,
                    total |-> Len(filtered_history),
                    limit |-> limit, offset |-> offset, mode |-> mode,
                    has_more |-> (offset + limit) < Len(filtered_history)]
        /\ UNCHANGED <<settings, conversation_history, feedback_store, slot, nchats>>

(* ---------------------------- DELETE /history ------------------------- *)
\* clear_history counting the messages after the log is emptied
clear_history_count_after(confirm) ==
    IF ~confirm
    THEN /\ resp' = [op |-> "clear", confirm |-> confirm, status |-> 400]
         /\ UNCHANGED <<settings, conversation_history, feedback_store, slot, nchats>>
    ELSE /\ conversation_history' = <<>>
         /\ resp' = [op |-> "clear", confirm |-> confirm, status |-> 200,
                     success |-> TRUE, cleared_count |-> Len(conversation_history')]
         /\ UNCHANGED <<settings, feedback_store, slot, nchats>>

clear_history(confirm) ==
    IF ~confirm
    THEN /\ resp' = [op |-> "clear", confirm |-> confirm, status |-> 400]
         /\ UNCHANGED <<settings, conversation_history, feedback_store, slot, nchats>>
    ELSE LET cleared_count == Len(conversation_history)
         IN  /\ conversation_history' = <<>>
             /\ resp' = [op |-> "clear", confirm |-> confirm, status |-> 200,
                         success |-> TRUE, cleared_count |-> cleared_count]
             /\ UNCHANGED <<settings, feedback_store, slot, nchats>>

(* ------------------------------- Next --------------------------------- *)
Chat == \E c \in ChatInputs :
            \E so \in (IF c.use_rag /\ strip(c.message) # <<>>
                        THEN SearchOutcomes ELSE {NoSearch}) :
                chat(c.message, c.mode, c.use_rag, so)

ChatResume == \E r \in Slots, outcome \in GenOutcomes : chat_resume(r, outcome)

SubmitFeedback == \E rating \in RatingInputs : submit_feedback(rating)

GetHistory == \E q \in HistoryQueries : get_history(q[1], q[2], q[3])

ClearHistory == \E confirm \in BOOLEAN : clear_history(confirm)

Next == Chat \/ ChatResume \/ SubmitFeedback \/ GetHistory \/ ClearHistory

Spec == Init /\ [][Next]_vars

(* ------------------- POST /chat, statement by statement --------------- *)
(* The end of chat with the length test of line 330 and the slice of line  *)
(* 331 as two steps.  There is no await from line 309 to the return, so    *)
(* the coroutine keeps the event loop between the two and no other handler *)
(* runs.                                                                   *)

\* the event loop as if chat awaited between lines 330 and 331
LoopFree_yielding == TRUE

\* no chat coroutine is between its length test and its slice (main.py:330-331)
LoopFree == \A r \in Slots : slot[r].pc # "trimming"

\* the response of lines 333-341
chat_response(s, ai_message, history) ==
    [op |-> "chat", phase |-> "done", chat_data |-> s.chat_data,
     message |-> s.chat_data.message, validated |-> TRUE,
     rag_calls |-> s.rag_calls, gen_calls |-> s.gen_calls,
     gen_failed |-> FALSE, rid |-> s.rid,
     status |-> 200, appended |-> s.appended + 1,
     response |-> ai_message.message, message_id |-> ai_message.id,
     mode |-> s.chat_data.mode, model |-> MODEL_NAME,
     conversation_length |-> Len(history),
     rag_used |-> s.chat_data.use_rag]

\* chat from the return of the awaited call to the length test (lines 308-330)
chat_resume_append(r, outcome) ==
    /\ slot[r].pc = "awaiting"
    /\ LET s == slot[r]
           res == call_gemini_api(outcome)
       IN  IF res.kind = "raise" /\ res.exc = "HTTPException"
           THEN /\ resp' = [op |-> "chat", phase |-> "done",
                            chat_data |-> s.chat_data,
                            message |-> s.chat_data.message, validated |-> TRUE,
                            rag_calls |-> s.rag_calls, gen_calls |-> s.gen_calls,
                            gen_failed |-> TRUE, rid |-> s.rid,
                            status |-> res.status, detail |-> res.detail,
                            appended |-> s.appended]
                /\ slot' = [slot EXCEPT ![r] = IdleSlot]
                /\ UNCHANGED conversation_history
           ELSE LET ai_response == IF res.kind = "raise"
                                   THEN get_fallback_response(s.chat_data.mode)
                                   ELSE res.text
                    ai_message == [id |-> Len(conversation_history) + 1,
                                   role |-> "assistant",
                                   message |-> ai_response,
                                   mode |-> s.chat_data.mode,
                                   model |-> MODEL_NAME,
                                   rid |-> s.rid]
                    history2 == Append(conversation_history, ai_message)
                IN  /\ conversation_history' = history2
                    /\ IF Len(history2) > settings.MAX_HISTORY_LENGTH
                       THEN /\ slot' = [slot EXCEPT ![r] =
                                          [pc |-> "trimming",
                                           chat_data |-> s.chat_data,
                                           rid |-> s.rid,
                                           appended |-> s.appended + 1,
                                           rag_calls |-> s.rag_calls,
                                           gen_calls |-> s.gen_calls,
                                           ai_message |-> ai_message,
                                           len_read |-> Len(history2)]]
                            /\ resp' = [op |-> "chat", phase |-> "running"]
                       ELSE /\ slot' = [slot EXCEPT ![r] = IdleSlot]
                            /\ resp' = chat_response(s, ai_message, history2)
    /\ UNCHANGED <<settings, feedback_store, nchats>>

\* chat from the slice of line 331 to the return
chat_trim(r) ==
    /\ slot[r].pc = "trimming"
    /\ LET s == slot[r]
           trimmed == LastN(conversation_history, settings.MAX_HISTORY_LENGTH)
       IN  /\ conversation_history' = trimmed
           /\ resp' = chat_response([s EXCEPT !.appended = s.appended - 1],
                                    s.ai_message, trimmed)
    /\ slot' = [slot EXCEPT ![r] = IdleSlot]
    /\ UNCHANGED <<settings, feedback_store, nchats>>

ChatResumeAppend ==
    \E r \in Slots, outcome \in GenOutcomes : chat_resume_append(r, outcome)

ChatTrim == \E r \in Slots : chat_trim(r)

Handlers == Chat \/ ChatResumeAppend \/ SubmitFeedback \/ GetHistory \/ ClearHistory

NextFine == (LoopFree /\ Handlers) \/ ChatTrim

SpecFine == Init /\ [][NextFine]_vars

(* ------------------------------ properties ---------------------------- *)
ChatDone == resp.op = "chat" /\ resp.phase = "done"
Awaiting(r) == slot[r].pc = "awaiting"

\* C1: every chat request that passes validation has appended exactly two
\* Turns (its user Turn, then its assistant Turn) when it ends, whether the
\* generation call succeeded or failed.
C1_TwoTurnsAppended ==
    (ChatDone /\ resp.validated) => resp.appended = 2

\* C2: a chat request whose generation call failed ends with status 200 and
\* the response text get_fallback_response(mode); no generation failure is
\* visible to the caller.
C2_FailureGivesFallback ==
    (ChatDone /\ resp.validated /\ resp.gen_failed)
        => /\ resp.status = 200
           /\ resp.response = get_fallback_response(resp.chat_data.mode)

\* C3: in every reachable state the conversation log holds at most
\* MAX_HISTORY_LENGTH Turns.
C3_LogWithinMaximum ==
    Len(conversation_history) <= settings.MAX_HISTORY_LENGTH

\* C4: in every reachable state the ids of the Turns in the conversation log
\* are contiguous and strictly increasing in log order.
C4_IdsContiguous ==
    \A i \in 1..(Len(conversation_history) - 1) :
        conversation_history[i + 1].id = conversation_history[i].id + 1

\* C5: every feedback submission with a rating in 1..5 succeeds and is the
\* newest entry of the feedback log, which never holds more than 100 entries.
C5_FeedbackAppended ==
    /\ Len(feedback_store) <= FEEDBACK_CAP
    /\ (resp.op = "feedback" /\ resp.rating \in RATING_MIN..RATING_MAX)
          => /\ resp.status = 200
             /\ feedback_store # <<>>
             /\ feedback_store[Len(feedback_store)].rating = resp.rating

\* the step leaves the log as it was, suspends no coroutine on the generation
\* call and has called neither collaborator
RejectedUntouched ==
    /\ conversation_history' = conversation_history
    /\ slot' = slot
    /\ resp'.rag_calls = 0
    /\ resp'.gen_calls = 0

\* C6 as stated: a chat request whose message is empty after trimming ends
\* with status 400, one made without a credential with status 500, and either
\* leaves the log unchanged and calls neither collaborator.
C6_RejectedAsStated ==
    [][ (resp'.op = "chat" /\ resp'.phase = "done")
          => /\ strip(resp'.message) = <<>>
                  => (resp'.status = 400 /\ RejectedUntouched)
             /\ (strip(resp'.message) # <<>> /\ settings.GEMINI_API_KEY = "")
                  => (resp'.status = 500 /\ RejectedUntouched) ]_vars

\* C6 amended: a blank but non-empty message ends with status 400, the empty
\* string with status 422 (the request model refuses it before chat runs), a
\* message with text but no credential with status 500; each leaves the log
\* unchanged and calls neither collaborator.
C6_Rejected ==
    [][ (resp'.op = "chat" /\ resp'.phase = "done")
          => /\ (resp'.message # <<>> /\ strip(resp'.message) = <<>>)
                  => (resp'.status = 400 /\ RejectedUntouched)
             /\ resp'.message = <<>>
                  => (resp'.status = 422 /\ RejectedUntouched)
             /\ (strip(resp'.message) # <<>> /\ settings.GEMINI_API_KEY = "")
                  => (resp'.status = 500 /\ RejectedUntouched) ]_vars

\* a blank message has been rejected with 400 while the log holds Turns
C6_Witness ==
    /\ ChatDone
    /\ resp.message = <<" ">>
    /\ resp.status = 400
    /\ conversation_history # <<>>

\* C7: DELETE /history without confirm ends with 400 and leaves the log
\* unchanged; with confirm it empties the log and reports the length the log
\* had before the call; the feedback log is unchanged either way.
C7_ClearHistory ==
    [][ resp'.op = "clear"
          => /\ feedback_store' = feedback_store
             /\ IF resp'.confirm
                THEN /\ resp'.status = 200
                     /\ conversation_history' = <<>>
                     /\ resp'.cleared_count = Len(conversation_history)
                ELSE /\ resp'.status = 400
                     /\ conversation_history' = conversation_history ]_vars

\* a confirmed clear has emptied a log of two or more Turns
C7_Witness ==
    /\ resp.op = "clear"
    /\ resp.status = 200
    /\ resp.cleared_count >= 2
    /\ conversation_history = <<>>

C9_NoRetrievalWithoutRag ==
    /\ \A r \in Slots :
          (Awaiting(r) /\ ~slot[r].chat_data.use_rag)
              => (slot[r].rag_calls = 0 /\ slot[r].final_prompt.rag = <<>>)
    /\ (ChatDone /\ resp.validated /\ ~resp.chat_data.use_rag)
          => resp.rag_calls = 0

\* a chat request with use_rag false has got its answer
C9_Witness ==
    /\ ChatDone
    /\ resp.validated
    /\ ~resp.chat_data.use_rag
    /\ resp.status = 200

\* the assistant Turn a successful chat step reports in its response
ReportedTurn(response) ==
    [id |-> response.message_id, role |-> "assistant",
     message |-> response.response, mode |-> response.mode,
     model |-> response.model, rid |-> response.rid]

\* C10: the step that appends the assistant Turn leaves the newest
\* MAX_HISTORY_LENGTH entries of the log with that Turn appended, in order
\* and unaltered, when that is longer than the maximum, and all of it
\* otherwise.
C10_TruncationKeepsNewest ==
    [][ (resp'.op = "chat" /\ resp'.phase = "done" /\ resp'.status = 200)
          => LET pre == Append(conversation_history, ReportedTurn(resp'))
                 max == settings.MAX_HISTORY_LENGTH
                 drop == Len(pre) - max
             IN  IF Len(pre) > max
                 THEN /\ Len(conversation_history') = max
                      /\ \A i \in 1..max :
                            conversation_history'[i] = pre[drop + i]
                 ELSE conversation_history' = pre ]_vars

\* a chat request has ended with a truncation that dropped older Turns
C10_Witness ==
    /\ ChatDone
    /\ resp.status = 200
    /\ resp.message_id > resp.conversation_length
    /\ Len(conversation_history) = settings.MAX_HISTORY_LENGTH
    /\ Len(conversation_history) >= 2

\* GET /history?limit=1&offset=0 has just been answered and the log holds the
\* two Turns of one chat request
HistoryOfOneChat ==
    /\ resp.op = "history"
    /\ resp.limit = 1 /\ resp.offset = 0 /\ resp.mode = None
    /\ Len(conversation_history) = 2
    /\ conversation_history[1].role = "user"
    /\ conversation_history[2].role = "assistant"

\* C11 as stated: after the two Turns of a chat, GET /history with limit 1 and
\* offset 0 returns exactly one message, the newest of the log, an assistant
\* Turn.
C11_NewestAsStated ==
    HistoryOfOneChat
        => /\ Len(resp.messages) = 1
           /\ resp.messages[1] = conversation_history[2]
           /\ resp.messages[1].role = "assistant"

\* C11 amended: after the two Turns of a chat, GET /history with limit 1 and
\* offset 0 returns exactly one message, the oldest of the log, the user Turn,
\* and reports that there is more.
C11_OldestReturned ==
    HistoryOfOneChat
        => /\ Len(resp.messages) = 1
           /\ resp.messages[1] = conversation_history[1]
           /\ resp.messages[1].role = "user"
           /\ resp.total = 2
           /\ resp.has_more

\* that query has been answered on such a log
C11_Witness ==
    /\ HistoryOfOneChat
    /\ conversation_history[1].rid = conversation_history[2].rid

\* the step accepts a chat request into place r
Accepted(r) == slot[r].pc = "idle" /\ slot'[r].pc = "awaiting"

\* C12: the history section of the prompt of a chat request is the rendering
\* of the last N Turns the log held before the request (N the configured
\* context window, or 4), so it does not hold the request's own message,
\* which comes once, under the final "Student:" label.
C12_HistoryIsPriorTurns ==
    [][ \A r \in Slots :
            Accepted(r)
                => /\ \E n \in {MAX_CONTEXT_MESSAGES, DEFAULT_MAX_MESSAGES} :
                          slot'[r].final_prompt.history =
                              format_conversation_history(conversation_history, n)
                   /\ slot'[r].final_prompt.student = slot'[r].chat_data.message
      ]_vars

Trimming(r) == slot[r].pc = "trimming"
OtherInFlight(r) == \E q \in Slots : q # r /\ slot[q].pc = "awaiting"

\* C13 as stated: with several chat requests in flight, the point between a
\* request's length test and its slice is one where another request can run
\* and change the log, so that the slice acts on a stale length.
C13_OthersRunBeforeTruncation ==
    \A r \in Slots :
        (Trimming(r) /\ OtherInFlight(r))
            => ENABLED (/\ LoopFree
                        /\ (Chat \/ ChatResumeAppend \/ ClearHistory)
                        /\ conversation_history' # conversation_history)

\* C13 amended: no other request runs between a request's length test and
\* its slice, so the log the slice acts on has the length that was tested,
\* however many chat requests are in flight.
C13_TruncationOnTestedLength ==
    \A r \in Slots :
        Trimming(r)
            => /\ Len(conversation_history) = slot[r].len_read
               /\ conversation_history[Len(conversation_history)] = slot[r].ai_message
               /\ ~ENABLED (LoopFree /\ Handlers)

\* a request is between its length test and its slice while another chat
\* request, accepted after it, waits on its generation call
C13_Witness ==
    \E r \in Slots :
        /\ Trimming(r)
        /\ \E q \in Slots : /\ q # r
                            /\ slot[q].pc = "awaiting"
                            /\ slot[q].rid > slot[r].rid

SearchRaised(r) ==
    /\ slot[r].pc = "awaiting"
    /\ slot[r].chat_data.use_rag
    /\ slot[r].searched.kind = "raise"

\* C14: a chat request with use_rag true whose search raises is not aborted:
\* it makes one generation call, with a prompt that has no retrieval context,
\* and it completes with both Turns appended.
C14_SearchFailureSwallowed ==
    [][ \A r \in Slots :
          /\ SearchRaised(r)'
                => /\ slot'[r].gen_calls = 1
                   /\ slot'[r].final_prompt.rag = <<>>
          /\ (SearchRaised(r) /\ slot'[r].pc = "idle")
                => /\ resp'.status = 200
                   /\ resp'.appended = 2
                   /\ resp'.gen_calls = 1 ]_vars

\* C15: a chat request that passed validation issues exactly one generation
\* call, whether the call succeeds or fails: while it waits its count of
\* calls is one, no step makes it call again, and it ends with a count of
\* one in either case.
C15_OneGenerationCall ==
    [][ \A r \in Slots :
          /\ slot'[r].pc = "awaiting" => slot'[r].gen_calls = 1
          /\ (Awaiting(r) /\ slot'[r].pc = "awaiting")
                => /\ slot'[r].rid = slot[r].rid
                   /\ slot'[r].gen_calls = slot[r].gen_calls
          /\ (Awaiting(r) /\ slot'[r].pc = "idle")
                => /\ ChatDone'
                   /\ resp'.validated
                   /\ resp'.rid = slot[r].rid
                   /\ resp'.gen_calls = 1 ]_vars

\* a request whose generation call failed has ended, with one call made
C15_Witness ==
    /\ ChatDone
    /\ resp.validated
    /\ resp.gen_failed
    /\ resp.gen_calls = 1

IsAssistant(i) == conversation_history[i].role = "assistant"

\* C16 as stated: under every interleaving of chat and clear requests, every
\* assistant Turn in the log is the first entry or comes right after the
\* user Turn of the same request.
C16_AssistantFollowsItsUser ==
    \A i \in 1..Len(conversation_history) :
        IsAssistant(i)
            => \/ i = 1
               \/ /\ conversation_history[i-1].role = "user"
                  /\ conversation_history[i-1].rid = conversation_history[i].rid

\* C16 amended: every assistant Turn in the log is the first entry, or comes
\* right after the user Turn of the same request, or comes right after a
\* Turn that another request appended while the Turn's own request was
\* suspended on its generation call: the user Turn of a request accepted
\* later, or the assistant Turn of another request.
C16_AssistantFollowsOwnOrLater ==
    \A i \in 1..Len(conversation_history) :
        IsAssistant(i)
            => \/ i = 1
               \/ /\ conversation_history[i-1].role = "user"
                  /\ conversation_history[i-1].rid >= conversation_history[i].rid
               \/ /\ conversation_history[i-1].role = "assistant"
                  /\ conversation_history[i-1].rid # conversation_history[i].rid

\* the log holds an assistant Turn right after the user Turn of a request
\* that was accepted while the assistant Turn's request was suspended
C16_Witness ==
    \E i \in 2..Len(conversation_history) :
        /\ IsAssistant(i)
        /\ conversation_history[i-1].role = "user"
        /\ conversation_history[i-1].rid > conversation_history[i].rid
====
